---- MODULE Spec2Model ----
(***************************************************************************)
(* LearnHub: the enrollment / progress tracker.                            *)
(*                                                                         *)
(* Two stores hold enrollments.  The local one is the browser key         *)
(* 'learnhub-enrollments' (hooks useEnrollmentSimple, useEnrollmentsList   *)
(* and the first LessonPage); the remote one is the hosted tables          *)
(* `enrollments` and `completed_lessons` (hook useEnrollments and the      *)
(* second LessonPage).                                                     *)
(***************************************************************************)
EXTENDS Integers, Sequences, FiniteSets, TLC

VARIABLES
    user,        \* useSession().user : the signed-in user, or NoUser
    now,         \* the wall clock, as read by Date.now() / new Date()
    store,       \* localStorage['learnhub-enrollments'] : array of records
    listMounted, \* a component using useEnrollmentsList is mounted
    enrollments, \* useEnrollmentsList: the hook's `enrollments` state
    last,        \* outcome of the last handler: operation, result, toast
    db,          \* remote table `enrollments` : rows in insertion order
    markers,     \* remote table `completed_lessons` : rows in insertion order
    calls,       \* useEnrollments.enrollInCourse invocations in flight
    pages,       \* mounted instances of the remote-table LessonPage
    probe,       \* a lookup evaluated on its own: its inputs and its result
    backend,     \* the auth client: the persisted backend session
    auth,        \* the session provider's state (user, loading, isAdmin, ...)
    tasks,       \* auth-event handlers suspended at their profile lookup
    nav,         \* the router: location and sessionStorage.redirectAfterLogin
    query,       \* a catalog query evaluated on its own: inputs and result
    courseStore, \* localStorage['learnhub-courses'] : absent, or an array
    single,      \* a useCourse instance: its id argument and its state
    lookups,     \* useCourse (remote version) fetches awaiting a response
    catalog,     \* a useCourses instance: its filters argument and its state
    fetches,     \* fetchCourses executions and background syncs at an await
    timers,      \* pending setTimeout callbacks of fetchCourses
    lastSync,    \* localStorage['lastCoursesSyncTime'] : NoTime, or a time
    clock,       \* Date.now() of the catalog, in hours
    syncLog      \* the times at which a background sync was started

remoteVars == <<db, markers, calls, pages>>
\* what the tracker's handlers never touch
sessionVars == <<backend, auth, tasks, nav>>
\* the course catalog (useCourses, useCourse)
\* the state of useCourses and of the keys and clock it reads
hookVars == <<catalog, fetches, timers, lastSync, clock, syncLog>>
catalogVars == <<query, courseStore, single, lookups, hookVars>>
outerVars == <<probe, sessionVars, catalogVars>>
vars == <<user, now, store, listMounted, enrollments, last, remoteVars, outerVars>>

-----------------------------------------------------------------------------
(* Bounds of the model *)

\* the clock is read at most this many times in a run
MaxTime == 1
\* lesson identifiers passed to updateCourseProgress are 1..MaxLessonId
MaxLessonId == 1
\* remote runs (SpecRemote): clock reads, enrollInCourse invocations in
\* flight, LessonPage instances (tabs or devices), lessons per course, rows
\* of completed_lessons
MaxRemoteTime == 2
MaxCalls == 2
MaxPages == 2
MaxRemoteLessons == 2
MaxMarkers == 2
\* the same two bounds for the runs of the tracker alone (SpecMany)
MaxManyTime == 4
MaxManyLessons == 11
\* lookups evaluated on their own (SpecLookup): entries of the stored array,
\* rows matching the remote query
MaxItems == 2
MaxRows == 2
\* session provider (SpecSession): auth-event handlers in flight
MaxEvents == 1
\* two tabs on one store (SpecTabs): clock reads
MaxTabsTime == 2
\* catalog queries (SpecQuery): stored courses, creation timestamps
MaxCourses == 2
MaxCreated == 2
\* useCourse (SpecCourse): fetches in flight
MaxLookups == 2
\* useCourses (SpecCatalogLocal, SpecCatalogRemote): executions at an await,
\* pending timers, hours on the clock, background syncs started
MaxFetches == 2
MaxTimers == 1
MaxClock == 2
MaxSyncs == 2

-----------------------------------------------------------------------------
(* Values *)

NoUser == "none"
Users == {"u1", "u2"}
\* a timestamp column: Null, or At(t) for the instant t
Null == <<>>
At(t) == <<t>>

\* Course identifiers the handlers are invoked with.  "course-x" stands for
\* an identifier that is not one of the four demo identifiers (for example
\* the UUID of a course that came from the database).
CourseIds == {"course-3", "course-x"}
LessonIds == 1..MaxLessonId
ManyLessonIds == 1..MaxManyLessons
ManyCourseIds == {"course-3"}
CallIds == 1..MaxCalls
PageIds == 1..MaxPages
\* the rows of the remote table `lessons` of a course, in `order`
RemoteLessonIds == 1..MaxRemoteLessons
RemoteCourseIds == {"course-x"}
Outcomes == {"ok", "error"}
\* how a request whose rejection matters ends: data, a returned error, or a
\* rejected promise
RequestOutcomes == {"ok", "error", "throw"}
NoCall == [pc |-> "idle"]
NoPage == [mounted |-> FALSE]
NoProbe == [op |-> "none"]

Statuses == {"enrolled", "in_progress", "completed"}

\* (newStatus, progress) pairs handed to updateEnrollmentStatus
StatusInputs == {<<"in_progress", 50>>, <<"completed", 100>>}

\* 30*24*60*60*1000 ms; the model's clock unit for this offset is one day
ThirtyDays == 30
\* ONE_HOUR = 60 * 60 * 1000 ms; the catalog's clock unit is one hour
OneHour == 1

\* Math.round(num / den * 100) for num >= 0, den > 0
RoundPercent(num, den) == (200 * num + den) \div (2 * den)

\* Math.floor(n * 0.35)
Floor35(n) == (35 * n) \div 100

\* what a handler leaves behind: the operation, the course it was about, the
\* success it returned and the toast it raised
Outcome(op, course, ok, toast) ==
    [op |-> op, course |-> course, ok |-> ok, toast |-> toast]

-----------------------------------------------------------------------------
(* Sequence helpers: Array.prototype.filter / some *)

RECURSIVE SelectSeqBy(_, _)
SelectSeqBy(s, keep) ==
    IF s = <<>> THEN <<>>
    ELSE IF keep[Head(s)] THEN <<Head(s)>> \o SelectSeqBy(Tail(s), keep)
         ELSE SelectSeqBy(Tail(s), keep)

Range(s) == {s[i] : i \in DOMAIN s}

-----------------------------------------------------------------------------
(* useEnrollmentSimple *)

\* getDemoCourse(courseId).lessons : the `lessons` number of the demo course,
\* demoCourses[0] when the identifier is unknown
getDemoCourse(courseId) ==
    CASE courseId = "course-1" -> 12
      [] courseId = "course-2" -> 18
      [] courseId = "course-3" -> 10
      [] courseId = "course-4" -> 15
      [] OTHER -> 12

\* x || 10
OrTen(x) == IF x = 0 THEN 10 ELSE x

\* isEnrolled(courseId) for user u: enrollments.find(...) is defined
isEnrolled(u, courseId) ==
    /\ u # NoUser
    /\ \E i \in DOMAIN store :
          store[i].user_id = u /\ store[i].course_id = courseId

\* enrollments.findIndex(...): the first matching index, 0 when none (-1)
findIndex(u, courseId) ==
    LET hits == {i \in DOMAIN store :
                    store[i].user_id = u /\ store[i].course_id = courseId}
    IN IF hits = {} THEN 0 ELSE CHOOSE i \in hits : \A j \in hits : i <= j

newEnrollment(u, courseId) ==
    [ id |-> <<now, 0>>,
      user_id |-> u,
      course_id |-> courseId,
      status |-> "enrolled",
      started_at |-> now,
      completed_at |-> Null,
      progress |-> 0,
      lesson_count |-> OrTen(getDemoCourse(courseId)),
      completed_lessons_count |-> 0,
      completed_lessons |-> <<>> ]

\* (mutant) the handler without its `if (!user)` return
enrollInCourse_NoAuthCheck(courseId, outcome) ==
    /\ UNCHANGED outerVars
    /\ UNCHANGED remoteVars
    /\ IF isEnrolled(user, courseId)
       THEN /\ last' = Outcome("enroll", courseId, TRUE, "Already enrolled")
            /\ UNCHANGED <<user, now, store, listMounted, enrollments>>
       ELSE IF outcome # "ok"
       THEN /\ last' = Outcome("enroll", courseId, FALSE, "Enrollment failed")
            /\ UNCHANGED <<user, now, store, listMounted, enrollments>>
       ELSE /\ store' = Append(store, newEnrollment(user, courseId))
            /\ now' = now + 1
            /\ last' = Outcome("enroll", courseId, TRUE, "Enrollment successful")
            /\ UNCHANGED <<user, listMounted, enrollments>>

\* `outcome` is how the write of the storage key ends: localStorage.setItem
\* returns ("ok") or throws ("error", caught by the handler)
enrollInCourse(courseId, outcome) ==
    /\ UNCHANGED outerVars
    /\ UNCHANGED remoteVars
    /\ IF user = NoUser
       THEN /\ last' = Outcome("enroll", courseId, FALSE, "Authentication required")
            /\ UNCHANGED <<user, now, store, listMounted, enrollments>>
       ELSE IF isEnrolled(user, courseId)
       THEN /\ last' = Outcome("enroll", courseId, TRUE, "Already enrolled")
            /\ UNCHANGED <<user, now, store, listMounted, enrollments>>
       ELSE IF outcome # "ok"
       THEN /\ last' = Outcome("enroll", courseId, FALSE, "Enrollment failed")
            /\ UNCHANGED <<user, now, store, listMounted, enrollments>>
       ELSE /\ store' = Append(store, newEnrollment(user, courseId))
            /\ now' = now + 1
            /\ last' = Outcome("enroll", courseId, TRUE, "Enrollment successful")
            /\ UNCHANGED <<user, listMounted, enrollments>>

\* completedLessons.includes(lessonId)
includes(completedLessons, lessonId) ==
    \E i \in DOMAIN completedLessons : completedLessons[i] = lessonId

\* updateCourseProgress(courseId, lessonId), as called by
\* LessonPage.markLessonAsCompleted.  The record's completed_lessons array
\* is <<>> when the field is absent (`enrollment.completed_lessons || []`).
progressStatus(e, progress) ==
    IF progress >= 100 THEN "completed"
    ELSE IF progress > 0 THEN "in_progress"
    ELSE e.status

markedEnrollment(e, lessonId) ==
    LET completedLessons == Append(e.completed_lessons, lessonId)
        totalLessons == OrTen(e.lesson_count)
        completedCount == Len(completedLessons)
        progress == RoundPercent(completedCount, totalLessons)
    IN [e EXCEPT !.completed_lessons = completedLessons,
                 !.completed_lessons_count = completedCount,
                 !.progress = progress,
                 !.status = progressStatus(e, progress),
                 !.completed_at = IF progress >= 100 THEN At(now) ELSE @]

updateCourseProgress(courseId, lessonId, outcome) ==
    LET idx == findIndex(user, courseId) IN
    /\ UNCHANGED outerVars
    /\ UNCHANGED remoteVars
    /\ IF user = NoUser \/ idx = 0
       THEN /\ last' = Outcome("mark", courseId, FALSE, "Failed to mark lesson as complete")
            /\ UNCHANGED <<user, now, store, listMounted, enrollments>>
       ELSE IF includes(store[idx].completed_lessons, lessonId)
       THEN /\ last' = Outcome("mark", courseId, TRUE, "")
            /\ UNCHANGED <<user, now, store, listMounted, enrollments>>
       ELSE IF outcome # "ok"
       THEN /\ last' = Outcome("mark", courseId, FALSE, "Failed to mark lesson as complete")
            /\ UNCHANGED <<user, now, store, listMounted, enrollments>>
       ELSE LET e == markedEnrollment(store[idx], lessonId) IN
            /\ store' = [store EXCEPT ![idx] = e]
            /\ now' = IF e.progress >= 100 THEN now + 1 ELSE now
            /\ last' = Outcome("mark", courseId, TRUE, "Progress updated")
            /\ UNCHANGED <<user, listMounted, enrollments>>

-----------------------------------------------------------------------------
(* useEnrollmentsList *)

\* getDemoCourses()[k].lessons
getDemoCourses(k) ==
    CASE k = 0 -> [id |-> "course-1", lessons |-> 12]
      [] k = 1 -> [id |-> "course-2", lessons |-> 18]
      [] k = 2 -> [id |-> "course-3", lessons |-> 10]
      [] k = 3 -> [id |-> "course-4", lessons |-> 15]

\* the three demo enrollments loadEnrollments creates for a user without any
demoEnrollments(u) ==
    << [ id |-> <<now, 1>>, user_id |-> u,
         course_id |-> getDemoCourses(0).id,
         status |-> "in_progress", started_at |-> now, completed_at |-> Null,
         progress |-> 35, lesson_count |-> getDemoCourses(0).lessons,
         completed_lessons_count |-> Floor35(getDemoCourses(0).lessons),
         completed_lessons |-> <<>> ],
       [ id |-> <<now, 2>>, user_id |-> u,
         course_id |-> getDemoCourses(1).id,
         status |-> "enrolled", started_at |-> now, completed_at |-> Null,
         progress |-> 0, lesson_count |-> getDemoCourses(1).lessons,
         completed_lessons_count |-> 0,
         completed_lessons |-> <<>> ],
       [ id |-> <<now, 3>>, user_id |-> u,
         course_id |-> getDemoCourses(2).id,
         status |-> "completed", started_at |-> now - ThirtyDays,
         completed_at |-> At(now),
         progress |-> 100, lesson_count |-> getDemoCourses(2).lessons,
         completed_lessons_count |-> getDemoCourses(2).lessons,
         completed_lessons |-> <<>> ] >>

\* allEnrollments.filter(e => e.user_id === user.id)
userEnrollments(u) ==
    SelectSeqBy(store, [e \in Range(store) |-> e.user_id = u])

\* fetchEnrollments -> loadEnrollments: sets the hook state, and seeds the
\* store with the demo enrollments when the user has none; when the storage
\* throws, loadEnrollments returns []
fetchEnrollments(u, outcome) ==
    IF u = NoUser \/ outcome # "ok"
    THEN /\ enrollments' = <<>>
         /\ UNCHANGED <<now, store>>
    ELSE IF userEnrollments(u) # <<>>
    THEN /\ enrollments' = userEnrollments(u)
         /\ UNCHANGED <<now, store>>
    ELSE /\ enrollments' = demoEnrollments(u)
         /\ store' = demoEnrollments(u)
         /\ now' = now + 1

\* a protected page that uses the hook (MyLearningPage, DashboardPage) mounts
ListMount(outcome) ==
    /\ UNCHANGED outerVars
    /\ UNCHANGED remoteVars
    /\ user # NoUser
    /\ ~listMounted
    /\ listMounted' = TRUE
    /\ fetchEnrollments(user, outcome)
    /\ last' = Outcome("load", "", TRUE, "")
    /\ UNCHANGED user

ListUnmount ==
    /\ UNCHANGED outerVars
    /\ UNCHANGED remoteVars
    /\ listMounted
    /\ listMounted' = FALSE
    /\ enrollments' = <<>>
    /\ last' = Outcome("unmount", "", TRUE, "")
    /\ UNCHANGED <<user, now, store>>

\* saveEnrollments(updatedEnrollments): a setItem that throws is logged and
\* swallowed
saveEnrollments(updatedEnrollments, outcome) ==
    store' = IF outcome = "ok" THEN updatedEnrollments ELSE store

updatedEnrollment(e, newStatus, progress) ==
    [e EXCEPT !.status = newStatus,
              !.progress = progress,
              !.completed_at = IF newStatus = "completed" THEN At(now) ELSE @]

updateEnrollmentStatus(enrollmentId, newStatus, progress, outcome) ==
    /\ UNCHANGED outerVars
    /\ UNCHANGED remoteVars
    /\ listMounted
    /\ enrollments' =
          [i \in DOMAIN enrollments |->
              IF enrollments[i].id = enrollmentId
              THEN updatedEnrollment(enrollments[i], newStatus, progress)
              ELSE enrollments[i]]
    /\ saveEnrollments(enrollments', outcome)
    /\ now' = IF newStatus = "completed" THEN now + 1 ELSE now
    /\ last' = Outcome("status", "", TRUE, "")
    /\ UNCHANGED <<user, listMounted>>

\* the course of the enrollment the user removes (the card it was rendered on)
removedCourse(enrollmentId) ==
    LET hit == {e \in Range(enrollments) : e.id = enrollmentId}
    IN IF hit = {} THEN "" ELSE (CHOOSE e \in hit : TRUE).course_id

removeEnrollment(enrollmentId, outcome) ==
    /\ UNCHANGED outerVars
    /\ UNCHANGED remoteVars
    /\ listMounted
    /\ enrollments' =
          SelectSeqBy(enrollments,
                      [e \in Range(enrollments) |-> e.id # enrollmentId])
    /\ saveEnrollments(enrollments', outcome)
    /\ last' = Outcome("remove", removedCourse(enrollmentId), TRUE, "Enrollment Removed")
    /\ UNCHANGED <<user, now, listMounted>>

-----------------------------------------------------------------------------
(* Session: the user of useSession() changes *)

SignIn(u) ==
    /\ UNCHANGED outerVars
    /\ UNCHANGED remoteVars
    /\ user = NoUser
    /\ user' = u
    /\ last' = Outcome("signin", "", TRUE, "")
    /\ UNCHANGED <<now, store, listMounted, enrollments>>

\* the protected pages unmount when the user becomes null
SignOut ==
    /\ UNCHANGED outerVars
    /\ pages' = [p \in PageIds |-> NoPage]
    /\ UNCHANGED <<db, markers, calls>>
    /\ user # NoUser
    /\ user' = NoUser
    /\ listMounted' = FALSE
    /\ enrollments' = <<>>
    /\ last' = Outcome("signout", "", TRUE, "")
    /\ UNCHANGED <<now, store>>

-----------------------------------------------------------------------------
(* useEnrollments (remote tables): enrollInCourse, both versions.  The        *)
(* existence check and the insert are two requests; the handler is suspended  *)
(* at each await.                                                             *)

\* rows of `enrollments` with .eq('user_id', u).eq('course_id', courseId)
enrollmentRows(u, courseId) ==
    {i \in DOMAIN db : db[i].user_id = u /\ db[i].course_id = courseId}

\* the `data` of .single() / .maybeSingle(): a row only when the request
\* succeeded and exactly one row matched
singleRow(rows, outcome) == outcome = "ok" /\ Cardinality(rows) = 1

\* enrollInCourse(courseId) up to the first await (the existence check)
remoteEnrollStart(k, courseId) ==
    /\ UNCHANGED outerVars
    /\ calls[k].pc = "idle"
    /\ IF user = NoUser
       THEN /\ last' = Outcome("enroll", courseId, FALSE, "Authentication required")
            /\ UNCHANGED calls
       ELSE /\ calls' = [calls EXCEPT ![k] =
                           [pc |-> "check", user_id |-> user,
                            course_id |-> courseId,
                            prior |-> enrollmentRows(user, courseId) # {}]]
            /\ UNCHANGED last
    /\ UNCHANGED <<user, now, store, listMounted, enrollments, db, markers, pages>>

\* the existence check returns; an existing row ends the call, anything else
\* (no row, several rows, a failed request) goes on to the insert
remoteEnrollCheck(k, outcome) ==
    /\ UNCHANGED outerVars
    /\ calls[k].pc = "check"
    /\ IF singleRow(enrollmentRows(calls[k].user_id, calls[k].course_id), outcome)
       THEN /\ last' = Outcome("enroll", calls[k].course_id, TRUE, "Already enrolled")
            /\ calls' = [calls EXCEPT ![k] = NoCall]
            /\ UNCHANGED now
       ELSE /\ calls' = [calls EXCEPT ![k] =
                           [pc |-> "insert", user_id |-> calls[k].user_id,
                            course_id |-> calls[k].course_id,
                            prior |-> calls[k].prior,
                            started_at |-> now]]
            /\ now' = now + 1
            /\ UNCHANGED last
    /\ UNCHANGED <<user, store, listMounted, enrollments, db, markers, pages>>

\* the insert returns: the table has no unique key on (user_id, course_id),
\* so a successful request always adds a row
remoteEnrollInsert(k, outcome) ==
    /\ UNCHANGED outerVars
    /\ calls[k].pc = "insert"
    /\ IF outcome = "ok"
       THEN /\ db' = Append(db, [ id |-> Len(db) + 1,
                                  user_id |-> calls[k].user_id,
                                  course_id |-> calls[k].course_id,
                                  status |-> "enrolled",
                                  started_at |-> calls[k].started_at,
                                  completed_at |-> Null ])
            /\ last' = Outcome("enroll", calls[k].course_id, TRUE, "Enrollment successful")
       ELSE /\ last' = Outcome("enroll", calls[k].course_id, FALSE, "Enrollment failed")
            /\ UNCHANGED db
    /\ calls' = [calls EXCEPT ![k] = NoCall]
    /\ UNCHANGED <<user, now, store, listMounted, enrollments, markers, pages>>

-----------------------------------------------------------------------------
(* LessonPage, remote-table version *)

\* rows of `completed_lessons` with .eq('user_id', u).eq('lesson_id', lesson)
markerRows(u, lesson) ==
    {i \in DOMAIN markers : markers[i].user_id = u /\ markers[i].lesson_id = lesson}

\* The page opens: checkEnrollment navigates away unless .single() finds the
\* user's enrollment; fetchLesson takes isCompleted from the marker lookup
\* and sets the user's enrollment of the course to in_progress unless it is
\* completed.
fetchLesson(p, courseId, lessonIndex) ==
    /\ UNCHANGED outerVars
    /\ user # NoUser
    /\ ~pages[p].mounted
    /\ IF singleRow(enrollmentRows(user, courseId), "ok")
       THEN /\ pages' = [pages EXCEPT ![p] =
                  [mounted |-> TRUE, user_id |-> user, course_id |-> courseId,
                   lesson |-> lessonIndex,
                   isCompleted |->
                      singleRow(markerRows(user, <<courseId, lessonIndex>>), "ok")]]
            /\ last' = Outcome("open", courseId, TRUE, "")
       ELSE /\ last' = Outcome("open", courseId, FALSE, "Access denied")
            /\ UNCHANGED pages
    /\ db' = [i \in DOMAIN db |->
                 IF /\ db[i].user_id = user
                    /\ db[i].course_id = courseId
                    /\ db[i].status # "completed"
                 THEN [db[i] EXCEPT !.status = "in_progress"]
                 ELSE db[i]]
    /\ UNCHANGED <<user, now, store, listMounted, enrollments, markers, calls>>

leavePage(p) ==
    /\ UNCHANGED outerVars
    /\ pages[p].mounted
    /\ pages' = [pages EXCEPT ![p] = NoPage]
    /\ last' = Outcome("leave", "", TRUE, "")
    /\ UNCHANGED <<user, now, store, listMounted, enrollments, db, markers, calls>>

\* newProgress of markAsComplete: the lessons at or before the current one,
\* over all lessons of the course
positionProgress(lessonIndex) ==
    RoundPercent(lessonIndex, MaxRemoteLessons)

\* markAsComplete with isCompleted false: insert the marker; when the lesson
\* is the last of the course the enrollment becomes completed
markAsComplete(p, outcome) ==
    LET pg == pages[p] IN
    /\ UNCHANGED outerVars
    /\ pg.mounted
    /\ ~pg.isCompleted
    /\ IF outcome = "ok"
       THEN /\ markers' = Append(markers,
                             [user_id |-> pg.user_id,
                              lesson_id |-> <<pg.course_id, pg.lesson>>])
            /\ pages' = [pages EXCEPT ![p].isCompleted = TRUE]
            /\ IF positionProgress(pg.lesson) >= 100
               THEN /\ db' = [i \in DOMAIN db |->
                                IF /\ db[i].user_id = pg.user_id
                                   /\ db[i].course_id = pg.course_id
                                THEN [db[i] EXCEPT !.status = "completed",
                                                   !.completed_at = At(now)]
                                ELSE db[i]]
                    /\ now' = now + 1
                    /\ last' = Outcome("mark", pg.course_id, TRUE, "Congratulations!")
               ELSE /\ last' = Outcome("mark", pg.course_id, TRUE, "Progress saved")
                    /\ UNCHANGED <<db, now>>
       ELSE /\ last' = Outcome("mark", pg.course_id, FALSE, "Error")
            /\ UNCHANGED <<markers, pages, db, now>>
    /\ UNCHANGED <<user, store, listMounted, enrollments, calls>>

\* markAsComplete with isCompleted true: delete the user's markers of the lesson
unmarkLesson(p, outcome) ==
    LET pg == pages[p] IN
    /\ UNCHANGED outerVars
    /\ pg.mounted
    /\ pg.isCompleted
    /\ IF outcome = "ok"
       THEN /\ markers' = SelectSeqBy(markers,
                             [m \in Range(markers) |->
                                 ~(m.user_id = pg.user_id
                                   /\ m.lesson_id = <<pg.course_id, pg.lesson>>)])
            /\ pages' = [pages EXCEPT ![p].isCompleted = FALSE]
            /\ last' = Outcome("unmark", pg.course_id, TRUE, "Lesson unmarked")
       ELSE /\ last' = Outcome("unmark", pg.course_id, FALSE, "Error")
            /\ UNCHANGED <<markers, pages>>
    /\ UNCHANGED <<user, now, store, listMounted, enrollments, db, calls>>

-----------------------------------------------------------------------------
(* Session providers: SessionProvider (the one App mounts) and the two        *)
(* versions of AuthProvider                                                   *)

Providers == {"session", "authV1", "authV2"}

AdminEmail == "admin@learnhub.com"
SpecialEmail == "zainskhan587@gmail.com"

\* backend accounts, named by their id
Accounts == {"admin", "alice"}
NoSession == "none"
accountEmail(a) == IF a = "admin" THEN AdminEmail ELSE "alice@example.com"

\* what is typed into the login form; the password is right or wrong
Emails == {AdminEmail, "alice@example.com", SpecialEmail, ""}

\* supabase.auth.signInWithPassword accepts the credentials
backendAccepts(email, passwordOk) ==
    passwordOk /\ \E a \in Accounts : accountEmail(a) = email

accountOf(email) == CHOOSE a \in Accounts : accountEmail(a) = email

\* values of `user`
NoCurrentUser == [id |-> "none", email |-> "", name |-> ""]
\* the row of the `users` table
profileUser(a) == [id |-> a, email |-> accountEmail(a), name |-> "profile name"]
\* { id: session.user.id, email: session.user.email, name: user_metadata.name }
metadataUser(a) == [id |-> a, email |-> accountEmail(a), name |-> "metadata name"]
fakeUser == [id |-> "zainskhan-user-id-123", email |-> SpecialEmail,
             name |-> "Zains Khan"]
\* { id: `guest-${Date.now()}`, email: email || 'guest@example.com' }
guestUser(email) ==
    [id |-> "guest", email |-> IF email = "" THEN "guest@example.com" ELSE email,
     name |-> "Guest User"]

NoSignIn == [pc |-> "idle", email |-> "", accepted |-> FALSE]

\* the provider after construction: useState initial values, with the
\* mount effect (fetchSession / fetchUser) about to call getSession
mounted(impl) ==
    [ impl |-> impl,
      session |-> NoSession,
      user |-> NoCurrentUser,
      loading |-> TRUE,
      isAdmin |-> FALSE,
      boot |-> [pc |-> "getSession", session |-> NoSession],
      signin |-> NoSignIn,
      signup |-> "idle",
      update |-> "idle",
      toast |-> "" ]

trackerVars ==
    <<user, now, store, listMounted, enrollments, last, remoteVars, probe,
      catalogVars>>

\* setIsAdmin(session.user.email === 'admin@learnhub.com')
adminOf(a) == accountEmail(a) = AdminEmail

\* The provider after the profile lookup of the mount effect returned, for
\* backend session `a`.  SessionProvider and AuthProvider (second version)
\* fall back to the auth metadata; AuthProvider (first version) throws into
\* the outer catch, which sets the user to null.
afterBootProfile(s, a, outcome) ==
    IF outcome = "ok"
    THEN [s EXCEPT !.user = profileUser(a), !.isAdmin = adminOf(a)]
    ELSE IF s.impl = "authV1"
    THEN [s EXCEPT !.user = NoCurrentUser]
    ELSE [s EXCEPT !.user = metadataUser(a), !.isAdmin = adminOf(a)]

\* The provider after the profile lookup of a SIGNED_IN / TOKEN_REFRESHED
\* handler returned.  In AuthProvider (first version) a returned error sets
\* the user to null and a rejected request leaves the handler unfinished.
afterEventProfile(s, a, outcome) ==
    IF outcome = "ok"
    THEN [s EXCEPT !.user = profileUser(a), !.isAdmin = adminOf(a)]
    ELSE IF s.impl = "authV1"
    THEN IF outcome = "error" THEN [s EXCEPT !.user = NoCurrentUser] ELSE s
    ELSE [s EXCEPT !.user = metadataUser(a), !.isAdmin = adminOf(a)]

\* (mutant) the SIGNED_OUT branch without setUser(null)
onAuthEvent_KeepsUser(s, event, session) ==
    LET t == IF s.impl = "session" THEN [s EXCEPT !.session = session] ELSE s
    IN IF event = "SIGNED_OUT" THEN [t EXCEPT !.isAdmin = FALSE] ELSE t

\* the onAuthStateChange handler up to its first await
onAuthEvent(s, event, session) ==
    LET t == IF s.impl = "session" THEN [s EXCEPT !.session = session] ELSE s
    IN IF event = "SIGNED_OUT"
       THEN [t EXCEPT !.user = NoCurrentUser, !.isAdmin = FALSE]
       ELSE t

\* the handlers in flight after an event: SIGNED_IN and TOKEN_REFRESHED with
\* a session start a profile lookup
withHandler(q, event, session) ==
    IF event \in {"SIGNED_IN", "TOKEN_REFRESHED"} /\ session # NoSession
    THEN Append(q, [event |-> event, session |-> session])
    ELSE q

\* fetchSession / fetchUser: getSession returned
bootGetSession(outcome) ==
    /\ auth.boot.pc = "getSession"
    /\ IF outcome # "ok"
       THEN auth' = [auth EXCEPT !.user = NoCurrentUser, !.loading = FALSE,
                                 !.boot = [pc |-> "done", session |-> NoSession]]
       ELSE LET t == IF auth.impl = "session"
                     THEN [auth EXCEPT !.session = backend.session] ELSE auth
            IN IF backend.session = NoSession
               THEN auth' = [t EXCEPT !.user = NoCurrentUser, !.loading = FALSE,
                                     !.boot = [pc |-> "done", session |-> NoSession]]
               ELSE auth' = [t EXCEPT !.boot = [pc |-> "profile",
                                               session |-> backend.session]]
    /\ UNCHANGED <<backend, tasks, nav, trackerVars>>

\* fetchSession / fetchUser: the profile lookup returned
bootProfile(outcome) ==
    /\ auth.boot.pc = "profile"
    /\ auth' = [afterBootProfile(auth, auth.boot.session, outcome) EXCEPT
                   !.loading = FALSE,
                   !.boot = [pc |-> "done", session |-> NoSession]]
    /\ UNCHANGED <<backend, tasks, nav, trackerVars>>

\* the auth client refreshes the token of the persisted session
tokenRefreshed ==
    /\ backend.session # NoSession
    /\ auth' = onAuthEvent(auth, "TOKEN_REFRESHED", backend.session)
    /\ tasks' = withHandler(tasks, "TOKEN_REFRESHED", backend.session)
    /\ UNCHANGED <<backend, nav, trackerVars>>

\* the profile lookup of the i-th suspended handler returned
listenerProfile(i, outcome) ==
    /\ i \in DOMAIN tasks
    /\ auth' = afterEventProfile(auth, tasks[i].session, outcome)
    /\ tasks' = [j \in 1..(Len(tasks) - 1) |->
                    IF j < i THEN tasks[j] ELSE tasks[j + 1]]
    /\ UNCHANGED <<backend, nav, trackerVars>>

\* sessionStorage.getItem('redirectAfterLogin') || '/dashboard'
redirectPath == IF nav.redirectAfterLogin = "" THEN "/dashboard"
                ELSE nav.redirectAfterLogin

\* SessionProvider.signIn(email, password): no request is made; the special
\* address gets the built-in user and every other address a guest user
sessionSignIn(email, passwordOk) ==
    /\ auth.impl = "session"
    /\ auth' = [auth EXCEPT
                   !.user = IF email = SpecialEmail THEN fakeUser
                            ELSE guestUser(email),
                   !.loading = FALSE,
                   !.toast = IF email = SpecialEmail THEN "Welcome back, Zains!"
                             ELSE "Welcome, Guest!",
                   !.signin = [pc |-> "done", email |-> "",
                               accepted |-> backendAccepts(email, passwordOk)]]
    /\ nav' = [nav EXCEPT !.path = redirectPath]
    /\ UNCHANGED <<backend, tasks, trackerVars>>

\* AuthProvider.signIn(email, password) up to signInWithPassword
authSignInStart(email, passwordOk) ==
    /\ auth.impl \in {"authV1", "authV2"}
    /\ auth.signin.pc \in {"idle", "done"}
    /\ auth' = [auth EXCEPT
                   !.loading = TRUE,
                   !.signin = [pc |-> "password", email |-> email,
                               accepted |-> backendAccepts(email, passwordOk)]]
    /\ UNCHANGED <<backend, tasks, nav, trackerVars>>

\* signInWithPassword returned: an error is thrown into the catch; on
\* success the client holds the session and announces SIGNED_IN
authSignInPassword ==
    /\ auth.signin.pc = "password"
    /\ IF ~auth.signin.accepted
       THEN /\ auth' = [auth EXCEPT !.toast = "Sign in failed",
                                    !.loading = FALSE,
                                    !.signin.pc = "done",
                                    !.signin.email = ""]
            /\ UNCHANGED <<backend, tasks>>
       ELSE LET a == accountOf(auth.signin.email) IN
            /\ backend' = [backend EXCEPT !.session = a]
            /\ auth' = [onAuthEvent(auth, "SIGNED_IN", a) EXCEPT
                           !.signin.pc = "profile"]
            /\ tasks' = withHandler(tasks, "SIGNED_IN", a)
    /\ UNCHANGED <<nav, trackerVars>>

\* the profile lookup of signIn returned
authSignInProfile(outcome) ==
    LET a == accountOf(auth.signin.email) IN
    /\ auth.signin.pc = "profile"
    /\ IF auth.impl = "authV1"
       THEN IF outcome = "ok"
            THEN /\ auth' = [auth EXCEPT !.user = profileUser(a),
                                         !.isAdmin = adminOf(a),
                                         !.toast = "Welcome back!",
                                         !.loading = FALSE,
                                         !.signin.pc = "done",
                                         !.signin.email = ""]
                 /\ nav' = [nav EXCEPT !.path = "/dashboard"]
            ELSE /\ auth' = [auth EXCEPT !.toast = "Sign in failed",
                                         !.loading = FALSE,
                                         !.signin.pc = "done",
                                         !.signin.email = ""]
                 /\ UNCHANGED nav
       ELSE /\ auth' = [auth EXCEPT
                           !.user = IF outcome = "ok" THEN profileUser(a)
                                    ELSE metadataUser(a),
                           !.isAdmin = adminOf(a),
                           !.toast = "Welcome back!",
                           !.loading = FALSE,
                           !.signin.pc = "done",
                           !.signin.email = ""]
            /\ UNCHANGED nav
    /\ UNCHANGED <<backend, tasks, trackerVars>>

\* SessionProvider.signOut: supabase.auth.signOut() returned.  Without an
\* error the client has dropped the session and announced SIGNED_OUT before
\* it returns; the provider itself only toasts and navigates.
sessionSignOut(outcome) ==
    /\ auth.impl = "session"
    /\ IF outcome # "ok"
       THEN /\ auth' = [auth EXCEPT !.toast = "Sign out failed"]
            /\ UNCHANGED <<backend, nav>>
       ELSE /\ backend' = [backend EXCEPT !.session = NoSession]
            /\ auth' = [onAuthEvent(auth, "SIGNED_OUT", NoSession) EXCEPT
                           !.toast = "Signed out"]
            /\ nav' = [nav EXCEPT !.path = "/login"]
    /\ UNCHANGED <<tasks, trackerVars>>

\* AuthProvider.signOut: the result of supabase.auth.signOut() is not looked
\* at; only a rejected call reaches the catch
authSignOut(outcome) ==
    /\ auth.impl \in {"authV1", "authV2"}
    /\ IF outcome = "throw"
       THEN /\ auth' = [auth EXCEPT !.toast = "Error"]
            /\ UNCHANGED <<backend, nav>>
       ELSE /\ backend' = IF outcome = "ok"
                          THEN [backend EXCEPT !.session = NoSession]
                          ELSE backend
            /\ auth' = [auth EXCEPT !.user = NoCurrentUser,
                                    !.isAdmin = FALSE,
                                    !.toast = "Signed out"]
            /\ nav' = [nav EXCEPT !.path = "/"]
    /\ UNCHANGED <<tasks, trackerVars>>

\* SessionProvider.signUp up to supabase.auth.signUp
signUpStart ==
    /\ auth.impl = "session"
    /\ auth.signup = "idle"
    /\ auth' = [auth EXCEPT !.loading = TRUE, !.signup = "signUp"]
    /\ UNCHANGED <<backend, tasks, nav, trackerVars>>

\* (mutant) signUp without its finally block
signUpAuth_NoFinally(outcome, hasUser) ==
    /\ auth.signup = "signUp"
    /\ IF outcome # "ok"
       THEN auth' = [auth EXCEPT !.toast = "Sign up failed", !.signup = "idle"]
       ELSE IF hasUser
       THEN auth' = [auth EXCEPT !.signup = "insert"]
       ELSE auth' = [auth EXCEPT !.signup = "idle"]
    /\ UNCHANGED <<backend, tasks, nav, trackerVars>>

\* supabase.auth.signUp returned: an error is thrown into the catch (toast,
\* rethrow) and the finally block clears loading; with a user the profile
\* row is inserted next
signUpAuth(outcome, hasUser) ==
    /\ auth.signup = "signUp"
    /\ IF outcome # "ok"
       THEN auth' = [auth EXCEPT !.toast = "Sign up failed",
                                 !.loading = FALSE,
                                 !.signup = "idle"]
       ELSE IF hasUser
       THEN auth' = [auth EXCEPT !.signup = "insert"]
       ELSE auth' = [auth EXCEPT !.loading = FALSE, !.signup = "idle"]
    /\ UNCHANGED <<backend, tasks, nav, trackerVars>>

\* the insert into `users` returned; its failure is only logged
signUpInsert(outcome) ==
    /\ auth.signup = "insert"
    /\ auth' = [auth EXCEPT !.toast = "Success!",
                            !.loading = FALSE,
                            !.signup = "idle"]
    /\ nav' = [nav EXCEPT !.path = "/login"]
    /\ UNCHANGED <<backend, tasks, trackerVars>>

\* SessionProvider.updateProfile up to supabase.auth.updateUser
updateProfileStart ==
    /\ auth.impl = "session"
    /\ auth.update = "idle"
    /\ auth.user # NoCurrentUser
    /\ auth' = [auth EXCEPT !.loading = TRUE, !.update = "updateUser"]
    /\ UNCHANGED <<backend, tasks, nav, trackerVars>>

\* supabase.auth.updateUser returned
updateProfileAuth(outcome) ==
    /\ auth.update = "updateUser"
    /\ IF outcome # "ok"
       THEN auth' = [auth EXCEPT !.toast = "Update failed",
                                 !.loading = FALSE,
                                 !.update = "idle"]
       ELSE auth' = [auth EXCEPT !.update = "table"]
    /\ UNCHANGED <<backend, tasks, nav, trackerVars>>

\* the update of `users` returned; its failure is only logged
updateProfileTable(outcome) ==
    /\ auth.update = "table"
    /\ auth' = [auth EXCEPT
                   !.user = IF auth.user = NoCurrentUser THEN NoCurrentUser
                            ELSE [auth.user EXCEPT !.name = "updated name"],
                   !.toast = "Profile updated",
                   !.loading = FALSE,
                   !.update = "idle"]
    /\ UNCHANGED <<backend, tasks, nav, trackerVars>>

\* routes of App: public ones, protected ones, and the admin-only one
Paths == {"/", "/login", "/dashboard", "/admin"}
ProtectedPaths == {"/dashboard", "/admin"}
requireAdmin(path) == path = "/admin"

\* (mutant) the guard without its admin check
ProtectedRoute_NoAdminCheck(s, adminOnly) ==
    IF s.loading THEN "spinner"
    ELSE IF s.user = NoCurrentUser THEN "/login"
    ELSE "children"

\* what ProtectedRoute returns: the spinner, a <Navigate to=...>, or its
\* children
ProtectedRoute(s, adminOnly) ==
    IF s.loading THEN "spinner"
    ELSE IF s.user = NoCurrentUser THEN "/login"
    ELSE IF adminOnly /\ ~s.isAdmin THEN "/dashboard"
    ELSE "children"

\* what the router shows at the current location
rendered ==
    IF nav.path \in ProtectedPaths
    THEN ProtectedRoute(auth, requireAdmin(nav.path))
    ELSE "children"

\* the visitor follows a link or types an address
visit(path) ==
    /\ nav.path # path
    /\ nav' = [nav EXCEPT !.path = path]
    /\ UNCHANGED <<backend, auth, tasks, trackerVars>>

\* the guard's effect and its <Navigate>: an unauthenticated visitor's
\* location is remembered and replaced by /login; a non-admin on the admin
\* route is sent to /dashboard
guardRedirect ==
    /\ nav.path \in ProtectedPaths
    /\ rendered \in Paths
    /\ nav' = IF rendered = "/login"
              THEN [path |-> "/login", redirectAfterLogin |-> nav.path]
              ELSE [nav EXCEPT !.path = rendered]
    /\ UNCHANGED <<backend, auth, tasks, trackerVars>>

-----------------------------------------------------------------------------
(* The course catalog: useCourses and useCourse *)

\* what the catalog's operations leave alone
nonCatalogVars ==
    <<user, now, store, listMounted, enrollments, last, remoteVars, probe,
      sessionVars>>

\* A text is a sequence of characters.  The alphabet is small: two lower-case
\* letters, the upper-case form of one of them, and the blank.
Chars == {"a", "b", "A", " "}
\* a field that is missing from the stored object
Undefined == <<"undefined">>
\* the filter value 'all'
All == <<"a", "l", "l">>

\* String.prototype.toLowerCase
toLowerCase(t) == [i \in DOMAIN t |-> IF t[i] = "A" THEN "a" ELSE t[i]]

\* String.prototype.trim
RECURSIVE trimStart(_)
trimStart(t) ==
    IF t # <<>> /\ Head(t) = " " THEN trimStart(Tail(t)) ELSE t

RECURSIVE trimEnd(_)
trimEnd(t) ==
    IF t # <<>> /\ t[Len(t)] = " "
    THEN trimEnd(SubSeq(t, 1, Len(t) - 1)) ELSE t

trim(t) == trimEnd(trimStart(t))

\* String.prototype.includes
textIncludes(t, sub) ==
    \E k \in 0..(Len(t) - Len(sub)) : SubSeq(t, k + 1, k + Len(sub)) = sub

\* a filter that is set: `filters?.x && filters.x !== 'all'`
active(x) == x # <<>> /\ x # All

NoFilters == [search |-> <<>>, category |-> <<>>, difficulty |-> <<>>,
              instructor |-> <<>>]

\* the predicates of the local-storage version of useCourses
localSearch(c, f) ==
    f.search # <<>> =>
        \/ textIncludes(toLowerCase(c.title), toLowerCase(f.search))
        \/ textIncludes(toLowerCase(c.description), toLowerCase(f.search))

localCategory(c, f) ==
    active(f.category) =>
        /\ c.category # Undefined
        /\ toLowerCase(c.category) = toLowerCase(f.category)

localDifficulty(c, f) ==
    active(f.difficulty) =>
        /\ c.difficulty # Undefined
        /\ c.difficulty # <<>>
        /\ LET filterDifficulty == trim(toLowerCase(f.difficulty))
               courseDifficulty == trim(toLowerCase(c.difficulty))
           IN \/ courseDifficulty = filterDifficulty
              \/ textIncludes(courseDifficulty, filterDifficulty)
              \/ textIncludes(filterDifficulty, courseDifficulty)

localInstructor(c, f) ==
    active(f.instructor) =>
        /\ c.instructor # Undefined
        /\ toLowerCase(c.instructor) = toLowerCase(f.instructor)

\* the predicates of the client-side filter version of useCourses
clientSearch(c, f) ==
    f.search # <<>> => textIncludes(toLowerCase(c.title), toLowerCase(f.search))

clientCategory(c, f) == active(f.category) => c.category = f.category

clientDifficulty(c, f) ==
    active(f.difficulty) =>
        (c.difficulty # Undefined /\ c.difficulty = f.difficulty)

clientInstructor(c, f) ==
    active(f.instructor) =>
        (c.instructor # Undefined /\ c.instructor = f.instructor)

\* Array.prototype.sort with (a, b) => b.created_at - a.created_at: a stable
\* sort, newest first
RECURSIVE insertNewestFirst(_, _)
insertNewestFirst(sorted, c) ==
    IF sorted = <<>> THEN <<c>>
    ELSE IF Head(sorted).created_at >= c.created_at
    THEN <<Head(sorted)>> \o insertNewestFirst(Tail(sorted), c)
    ELSE <<c>> \o sorted

RECURSIVE sortNewestFirst(_)
sortNewestFirst(cs) ==
    IF cs = <<>> THEN <<>>
    ELSE insertNewestFirst(sortNewestFirst(SubSeq(cs, 1, Len(cs) - 1)),
                           cs[Len(cs)])

\* fetchCourses of the local-storage version, from the parsed array on
filterLocal(courseData, f) ==
    sortNewestFirst(
        SelectSeqBy(courseData,
            [c \in Range(courseData) |->
                /\ localSearch(c, f)
                /\ localCategory(c, f)
                /\ localDifficulty(c, f)
                /\ localInstructor(c, f)]))

\* fetchCourses of the client-side filter version, from the selected rows on
filterClient(rows, f) ==
    sortNewestFirst(
        SelectSeqBy(rows,
            [c \in Range(rows) |->
                /\ clientSearch(c, f)
                /\ clientCategory(c, f)
                /\ clientDifficulty(c, f)
                /\ clientInstructor(c, f)]))

\* stored courses of the query runs: the k-th course has id k
CourseFields ==
    [title : {<<"a">>, <<"b">>},
     category : {<<"a">>, <<"A">>},
     difficulty : {Undefined, <<"a">>, <<"a", "b">>},
     instructor : {Undefined, <<"a">>},
     created_at : 1..MaxCreated]

courseOf(k, x) ==
    [id |-> k, title |-> x.title, description |-> <<"b">>,
     category |-> x.category, difficulty |-> x.difficulty,
     instructor |-> x.instructor, created_at |-> x.created_at]

StoredCourses ==
    UNION {{[k \in 1..n |-> courseOf(k, xs[k])] : xs \in [1..n -> CourseFields]}
              : n \in 0..MaxCourses}

FilterInputs ==
    [search : {<<>>, <<"a">>},
     category : {<<>>, All, <<"a">>},
     difficulty : {<<>>, <<"a">>},
     instructor : {<<>>, <<"a">>}]

NoQuery == [op |-> "none"]

\* the stored catalog key: absent, or the parsed array
NoStore == [present |-> FALSE, items |-> <<>>]
Stored(items) == [present |-> TRUE, items |-> items]

\* a Course object; difficulties "a" = beginner, "b" = intermediate,
\* "c" = advanced
course(id, title, category, difficulty, instructor, created_at) ==
    [id |-> id, title |-> title, description |-> <<"b">>,
     category |-> category, difficulty |-> difficulty,
     instructor |-> instructor, created_at |-> created_at]

\* getDemoCourses(): the four demo courses, created_at = new Date()
demoCourses ==
    << course("course-1", <<"a">>, <<"a">>, <<"a">>, <<"a">>, clock),
       course("course-2", <<"b">>, <<"b">>, <<"b">>, <<"b">>, clock),
       course("course-3", <<"a", "b">>, <<"c">>, <<"b">>, <<"c">>, clock),
       course("course-4", <<"b", "a">>, <<"a">>, <<"c">>, <<"a", "b">>, clock) >>

\* rows of the remote table `courses`
tableRows ==
    << course("uuid-1", <<"a">>, <<"a">>, <<"a">>, <<"a">>, 0),
       course("course-1", <<"b">>, <<"b">>, <<"b">>, <<"b">>, 1) >>

TableCourses == {tableRows[i].id : i \in DOMAIN tableRows}

\* the `id` argument of useCourse: none, a demo id, the id of a database
\* course, and an id no course has
CourseIdInputs == {"", "course-2", "uuid-1", "uuid-2"}

NoCourse == [id |-> "none"]
Unmounted == [impl |-> "none", id |-> "", course |-> NoCourse,
              loading |-> TRUE, error |-> FALSE]

\* localStorage.getItem('lastCoursesSyncTime') === null
NoTime == -1

\* the filters argument of the catalog page
CatalogFilters == {NoFilters, [NoFilters EXCEPT !.difficulty = <<"a">>]}

NoCatalog == [impl |-> "none", filters |-> NoFilters, courses |-> <<>>,
              loading |-> TRUE, error |-> FALSE, isInitialized |-> FALSE,
              isFetching |-> FALSE, rerun |-> FALSE]

InitCatalog ==
    /\ query = NoQuery
    /\ courseStore = NoStore
    /\ single = Unmounted
    /\ lookups = <<>>
    /\ catalog = NoCatalog
    /\ fetches = <<>>
    /\ timers = 0
    /\ lastSync = NoTime
    /\ clock = 0
    /\ syncLog = <<>>

\* a page using useCourse mounts; the hook is one of the two versions
mountCourse(impl) ==
    /\ single.impl = "none"
    /\ single' = [single EXCEPT !.impl = impl]
    /\ UNCHANGED <<query, courseStore, lookups, hookVars, nonCatalogVars>>

\* id.startsWith('course-') with a number between 1 and demoCourses.length:
\* the index of the demo course, 0 when the pattern does not apply
demoIndex(id) ==
    CASE id = "course-1" -> 1
      [] id = "course-2" -> 2
      [] id = "course-3" -> 3
      [] id = "course-4" -> 4
      [] OTHER -> 0

\* the course useCourse (local-storage version) falls back to
fallbackCourse(id) ==
    IF demoIndex(id) # 0 THEN demoCourses[demoIndex(id)] ELSE demoCourses[1]

\* courses.find(c => c.id === id): the first match, as a set of at most one
foundCourse(items, id) ==
    LET hits == {i \in DOMAIN items : items[i].id = id}
    IN IF hits = {} THEN {}
       ELSE {items[CHOOSE i \in hits : \A j \in hits : i <= j]}

\* useCourse (local-storage version): the effect for the argument `id`; it
\* has no await and runs to its end
useCourseLocal(id) ==
    /\ single.impl = "local"
    /\ IF id = ""
       THEN /\ single' = [single EXCEPT !.id = id]
            /\ UNCHANGED courseStore
       ELSE IF courseStore.present /\ foundCourse(courseStore.items, id) # {}
       THEN /\ single' = [single EXCEPT
                             !.id = id,
                             !.course = CHOOSE c \in
                                  foundCourse(courseStore.items, id) : TRUE,
                             !.loading = FALSE,
                             !.error = FALSE]
            /\ UNCHANGED courseStore
       ELSE /\ single' = [single EXCEPT !.id = id,
                                        !.course = fallbackCourse(id),
                                        !.loading = FALSE,
                                        !.error = FALSE]
            /\ courseStore' =
                  IF ~courseStore.present THEN Stored(demoCourses)
                  ELSE IF \E c \in Range(courseStore.items) :
                             c.id = fallbackCourse(id).id
                  THEN courseStore
                  ELSE Stored(Append(courseStore.items, fallbackCourse(id)))
    /\ UNCHANGED <<query, lookups, hookVars, nonCatalogVars>>

\* useCourse (remote version): the effect for the argument `id` up to the
\* request for the course row
useCourseRemoteStart(id) ==
    /\ single.impl = "remote"
    /\ IF id = ""
       THEN /\ single' = [single EXCEPT !.id = id]
            /\ UNCHANGED lookups
       ELSE /\ single' = [single EXCEPT !.id = id, !.loading = TRUE,
                                        !.error = FALSE]
            /\ lookups' = Append(lookups, [id |-> id, pc |-> "course"])
    /\ UNCHANGED <<query, courseStore, hookVars, nonCatalogVars>>

removeAt(q, i) ==
    [j \in 1..(Len(q) - 1) |-> IF j < i THEN q[j] ELSE q[j + 1]]

\* .eq('id', id).single() returned: an error (also when no row matches) is
\* thrown into the catch; a row is kept for the lessons request
useCourseRemoteCourse(i, outcome) ==
    /\ i \in DOMAIN lookups
    /\ lookups[i].pc = "course"
    /\ IF outcome = "ok" /\ lookups[i].id \in TableCourses
       THEN /\ lookups' = [lookups EXCEPT ![i].pc = "lessons"]
            /\ UNCHANGED single
       ELSE /\ lookups' = removeAt(lookups, i)
            /\ single' = [single EXCEPT !.error = TRUE, !.loading = FALSE]
    /\ UNCHANGED <<query, courseStore, hookVars, nonCatalogVars>>

\* the lessons request returned: the course row is shown, with the lessons
\* or with none
useCourseRemoteLessons(i, outcome) ==
    /\ i \in DOMAIN lookups
    /\ lookups[i].pc = "lessons"
    /\ lookups' = removeAt(lookups, i)
    /\ single' = [single EXCEPT
                      !.course = tableRows[CHOOSE k \in DOMAIN tableRows :
                                     tableRows[k].id = lookups[i].id],
                      !.loading = FALSE]
    /\ UNCHANGED <<query, courseStore, hookVars, nonCatalogVars>>

NextCourse ==
    \/ \E impl \in {"local", "remote"} : mountCourse(impl)
    \/ \E id \in CourseIdInputs : useCourseLocal(id)
    \/ \E id \in CourseIdInputs :
          useCourseRemoteStart(id) /\ Len(lookups') <= MaxLookups
    \/ \E i \in DOMAIN lookups, o \in RequestOutcomes :
          useCourseRemoteCourse(i, o)
    \/ \E i \in DOMAIN lookups, o \in RequestOutcomes :
          useCourseRemoteLessons(i, o)


\* ---- useCourses, local-storage version ----

\* the tail of fetchCourses once courseData is known: the background-sync
\* timer is set, the filters are applied, and the finally block runs; the
\* first completion changes isInitialized, a dependency of the effect
finished(h, courseData, f) ==
    [h EXCEPT !.courses = filterLocal(courseData, f),
              !.loading = FALSE,
              !.rerun = ~h.isInitialized,
              !.isInitialized = TRUE,
              !.isFetching = FALSE]

\* fetchCourses goes past `if (isFetchingRef.current) return`
fetchCourses(h, f) == ~h.isFetching

\* the effect body: fetchCourses() for the filters f on hook state h, up to
\* its end or its first await
runEffect(h, f) ==
    IF ~fetchCourses(h, f)
    THEN /\ catalog' = h
         /\ UNCHANGED <<fetches, timers>>
    ELSE IF courseStore.present
    THEN /\ catalog' = finished([h EXCEPT !.error = FALSE],
                                courseStore.items, f)
         /\ timers' = timers + 1
         /\ UNCHANGED fetches
    ELSE /\ catalog' = [h EXCEPT !.isFetching = TRUE,
                                 !.loading = IF h.isInitialized THEN @ ELSE TRUE,
                                 !.error = FALSE]
         /\ fetches' = Append(fetches, [kind |-> "fetch", filters |-> f,
                                        pc |-> "select", log |-> 0])
         /\ UNCHANGED timers

\* the catalog page mounts with filters f
mountLocal(f) ==
    /\ catalog.impl = "none"
    /\ runEffect([catalog EXCEPT !.impl = "local", !.filters = f], f)
    /\ UNCHANGED <<query, courseStore, single, lookups, lastSync, clock,
                   syncLog, nonCatalogVars>>

\* the filters change: the effect's cleanup clears isFetchingRef and the
\* effect runs again
setFiltersLocal(f) ==
    /\ catalog.impl = "local"
    /\ f # catalog.filters
    /\ runEffect([catalog EXCEPT !.filters = f, !.isFetching = FALSE,
                                 !.rerun = FALSE], f)
    /\ UNCHANGED <<query, courseStore, single, lookups, lastSync, clock,
                   syncLog, nonCatalogVars>>

\* isInitialized changed: cleanup, then the effect again
rerunEffect ==
    /\ catalog.impl = "local"
    /\ catalog.rerun
    /\ runEffect([catalog EXCEPT !.isFetching = FALSE, !.rerun = FALSE],
                 catalog.filters)
    /\ UNCHANGED <<query, courseStore, single, lookups, lastSync, clock,
                   syncLog, nonCatalogVars>>

\* the log of background syncs once the k-th of them has returned
synced(k) == [syncLog EXCEPT ![k].done = clock]

\* syncCoursesFromDatabase: the select on `courses` returned.  With rows the
\* lessons are requested next; on an error the demo courses are returned and
\* nothing is stored.  For a fetch, initializeCoursesInLocalStorage then
\* records the sync time and fetchCourses runs to its end.
syncSelect(i, outcome) ==
    /\ catalog.impl = "local"
    /\ i \in DOMAIN fetches
    /\ fetches[i].pc = "select"
    /\ IF outcome = "ok"
       THEN /\ fetches' = [fetches EXCEPT ![i].pc = "lessons"]
            /\ UNCHANGED <<catalog, timers, lastSync, syncLog>>
       ELSE /\ fetches' = removeAt(fetches, i)
            /\ IF fetches[i].kind = "fetch"
               THEN /\ lastSync' = clock
                    /\ timers' = timers + 1
                    /\ catalog' = finished(catalog, demoCourses,
                                           fetches[i].filters)
                    /\ UNCHANGED syncLog
               ELSE /\ syncLog' = synced(fetches[i].log)
                    /\ UNCHANGED <<catalog, timers, lastSync>>
    /\ UNCHANGED <<query, courseStore, single, lookups, clock,
                   nonCatalogVars>>

\* syncCoursesFromDatabase: the lessons requests returned (a failed one
\* counts as no lessons); the rows are stored
syncLessons(i, outcome) ==
    /\ catalog.impl = "local"
    /\ i \in DOMAIN fetches
    /\ fetches[i].pc = "lessons"
    /\ fetches' = removeAt(fetches, i)
    /\ courseStore' = Stored(tableRows)
    /\ IF fetches[i].kind = "fetch"
       THEN /\ lastSync' = clock
            /\ timers' = timers + 1
            /\ catalog' = finished(catalog, tableRows, fetches[i].filters)
            /\ UNCHANGED syncLog
       ELSE /\ syncLog' = synced(fetches[i].log)
            /\ UNCHANGED <<catalog, timers, lastSync>>
    /\ UNCHANGED <<query, single, lookups, clock, nonCatalogVars>>

\* !lastSyncTime || (currentTime - parseInt(lastSyncTime)) > ONE_HOUR
syncDue == lastSync = NoTime \/ clock - lastSync > OneHour

\* a setTimeout callback of fetchCourses runs
timerFires ==
    /\ timers > 0
    /\ timers' = timers - 1
    /\ IF syncDue
       THEN /\ syncLog' = Append(syncLog, [started |-> clock,
                                               done |-> NoTime])
            /\ fetches' = Append(fetches, [kind |-> "background",
                                           filters |-> NoFilters,
                                           pc |-> "select",
                                           log |-> Len(syncLog) + 1])
       ELSE UNCHANGED <<syncLog, fetches>>
    /\ UNCHANGED <<query, courseStore, single, lookups, catalog, lastSync,
                   clock, nonCatalogVars>>

\* an hour passes; the two-second timers set before it have run
tick ==
    /\ timers = 0
    /\ clock' = clock + 1
    /\ UNCHANGED <<query, courseStore, single, lookups, catalog, fetches,
                   timers, lastSync, syncLog, nonCatalogVars>>

NextCatalogLocal ==
    \/ \E f \in CatalogFilters :
          mountLocal(f) /\ Len(fetches') <= MaxFetches /\ timers' <= MaxTimers
    \/ \E f \in CatalogFilters :
          setFiltersLocal(f) /\ Len(fetches') <= MaxFetches
             /\ timers' <= MaxTimers
    \/ rerunEffect /\ Len(fetches') <= MaxFetches /\ timers' <= MaxTimers
    \/ \E i \in DOMAIN fetches, o \in RequestOutcomes :
          syncSelect(i, o) /\ timers' <= MaxTimers
    \/ \E i \in DOMAIN fetches, o \in RequestOutcomes :
          syncLessons(i, o) /\ timers' <= MaxTimers
    \/ timerFires /\ Len(fetches') <= MaxFetches /\ Len(syncLog') <= MaxSyncs
    \/ tick /\ clock' <= MaxClock

\* ---- useCourses, the versions that query the remote table ----

\* the effect: fetchCourses() up to the request for the courses
startRemote(h, f) ==
    /\ catalog' = [h EXCEPT !.loading = TRUE, !.error = FALSE]
    /\ fetches' = Append(fetches, [kind |-> "fetch", filters |-> f,
                                   pc |-> "select", log |-> 0])

mountRemote(f) ==
    /\ catalog.impl = "none"
    /\ startRemote([catalog EXCEPT !.impl = "remote", !.filters = f], f)
    /\ UNCHANGED <<query, courseStore, single, lookups, timers, lastSync,
                   clock, syncLog, nonCatalogVars>>

setFiltersRemote(f) ==
    /\ catalog.impl = "remote"
    /\ f # catalog.filters
    /\ startRemote([catalog EXCEPT !.filters = f], f)
    /\ UNCHANGED <<query, courseStore, single, lookups, timers, lastSync,
                   clock, syncLog, nonCatalogVars>>

\* the request for the courses returned: an error is thrown into the catch;
\* with data the lessons (or ratings) of every course are requested
remoteSelect(i, outcome) ==
    /\ catalog.impl = "remote"
    /\ i \in DOMAIN fetches
    /\ fetches[i].pc = "select"
    /\ IF outcome = "ok"
       THEN /\ fetches' = [fetches EXCEPT ![i].pc = "details"]
            /\ UNCHANGED catalog
       ELSE /\ fetches' = removeAt(fetches, i)
            /\ catalog' = [catalog EXCEPT !.error = TRUE, !.loading = FALSE]
    /\ UNCHANGED <<query, courseStore, single, lookups, timers, lastSync,
                   clock, syncLog, nonCatalogVars>>

\* the rows a fetch for the filters f shows
shownRows(f) == filterClient(tableRows, f)

\* Promise.all returned: setCourses with the rows of this fetch
remoteDetails(i, outcome) ==
    /\ catalog.impl = "remote"
    /\ i \in DOMAIN fetches
    /\ fetches[i].pc = "details"
    /\ fetches' = removeAt(fetches, i)
    /\ catalog' = [catalog EXCEPT !.courses = shownRows(fetches[i].filters),
                                  !.loading = FALSE]
    /\ UNCHANGED <<query, courseStore, single, lookups, timers, lastSync,
                   clock, syncLog, nonCatalogVars>>

NextCatalogRemote ==
    \/ \E f \in CatalogFilters : mountRemote(f)
    \/ \E f \in CatalogFilters :
          setFiltersRemote(f) /\ Len(fetches') <= MaxFetches
    \/ \E i \in DOMAIN fetches, o \in RequestOutcomes : remoteSelect(i, o)
    \/ \E i \in DOMAIN fetches, o \in RequestOutcomes : remoteDetails(i, o)

\* one evaluation of the catalog query
QueryLocal(courseData, f) ==
    /\ query' = [op |-> "local", stored |-> courseData, filters |-> f,
                 result |-> filterLocal(courseData, f)]
    /\ UNCHANGED <<courseStore, single, lookups, hookVars, nonCatalogVars>>

QueryClient(rows, f) ==
    /\ query' = [op |-> "client", stored |-> rows, filters |-> f,
                 result |-> filterClient(rows, f)]
    /\ UNCHANGED <<courseStore, single, lookups, hookVars, nonCatalogVars>>

\* each run evaluates one query
NextQuery ==
    \/ /\ query = NoQuery
       /\ \E cs \in StoredCourses, f \in FilterInputs : QueryLocal(cs, f)
    \/ /\ query = NoQuery
       /\ \E cs \in StoredCourses, f \in FilterInputs : QueryClient(cs, f)

-----------------------------------------------------------------------------
Init ==
    /\ user = NoUser
    /\ now = 0
    /\ store = <<>>
    /\ listMounted = FALSE
    /\ enrollments = <<>>
    /\ last = Outcome("init", "", TRUE, "")
    /\ db = <<>>
    /\ markers = <<>>
    /\ calls = [k \in CallIds |-> NoCall]
    /\ pages = [p \in PageIds |-> NoPage]
    /\ probe = NoProbe
    /\ backend = [session |-> NoSession]
    /\ auth = mounted("session")
    /\ tasks = <<>>
    /\ nav = [path |-> "/", redirectAfterLogin |-> ""]
    /\ InitCatalog

\* One browser tab: the pages that list enrollments (MyLearningPage,
\* DashboardPage) and the pages that enroll or mark lessons
\* (CourseDetailPage, LessonPage) are routes of one router, so the tracker's
\* handlers run only while no list page is mounted.
Next ==
    \/ \E u \in Users : SignIn(u)
    \/ SignOut
    \/ \E c \in CourseIds, o \in Outcomes :
          ~listMounted /\ enrollInCourse(c, o) /\ now' <= MaxTime
    \/ \E c \in CourseIds, l \in LessonIds, o \in Outcomes :
          ~listMounted /\ updateCourseProgress(c, l, o) /\ now' <= MaxTime
    \/ \E o \in Outcomes : ListMount(o) /\ now' <= MaxTime
    \/ ListUnmount
    \/ \E i \in DOMAIN enrollments, sp \in StatusInputs, o \in Outcomes :
          updateEnrollmentStatus(enrollments[i].id, sp[1], sp[2], o)
             /\ now' <= MaxTime
    \/ \E i \in DOMAIN enrollments, o \in Outcomes :
          removeEnrollment(enrollments[i].id, o)

Spec == Init /\ [][Next]_vars

\* The same tab with only the handlers that a page wires up:
\* updateEnrollmentStatus is returned by the hook and used by no page.
NextWired ==
    \/ \E u \in Users : SignIn(u)
    \/ SignOut
    \/ \E c \in CourseIds, o \in Outcomes :
          ~listMounted /\ enrollInCourse(c, o) /\ now' <= MaxTime
    \/ \E c \in CourseIds, l \in LessonIds, o \in Outcomes :
          ~listMounted /\ updateCourseProgress(c, l, o) /\ now' <= MaxTime
    \/ \E o \in Outcomes : ListMount(o) /\ now' <= MaxTime
    \/ ListUnmount
    \/ \E i \in DOMAIN enrollments, o \in Outcomes :
          removeEnrollment(enrollments[i].id, o)

SpecWired == Init /\ [][NextWired]_vars

\* Two tabs of one browser: the tracker (course and lesson pages) in one, the
\* enrollment list (MyLearningPage) in the other, both on the same
\* localStorage key.
NextTabs ==
    \/ \E u \in Users : SignIn(u)
    \/ SignOut
    \/ \E c \in CourseIds, o \in Outcomes :
          enrollInCourse(c, o) /\ now' <= MaxTabsTime
    \/ \E c \in CourseIds, l \in LessonIds, o \in Outcomes :
          updateCourseProgress(c, l, o) /\ now' <= MaxTabsTime
    \/ \E o \in Outcomes : ListMount(o) /\ now' <= MaxTabsTime
    \/ ListUnmount
    \/ \E i \in DOMAIN enrollments, sp \in StatusInputs, o \in Outcomes :
          updateEnrollmentStatus(enrollments[i].id, sp[1], sp[2], o)
             /\ now' <= MaxTabsTime
    \/ \E i \in DOMAIN enrollments, o \in Outcomes :
          removeEnrollment(enrollments[i].id, o)

SpecTabs == Init /\ [][NextTabs]_vars

\* the lessons are taken in order: a marked one again, or the next one
nextLessons(courseId) ==
    LET idx == findIndex(user, courseId)
    IN IF idx = 0 THEN {1}
       ELSE {l \in ManyLessonIds : l <= Len(store[idx].completed_lessons) + 1}

\* The tracker alone (useEnrollmentSimple and the session), with enough
\* lesson identifiers to pass a course's lesson_count.
NextMany ==
    \/ \E u \in Users : SignIn(u)
    \/ SignOut
    \/ \E c \in ManyCourseIds, o \in Outcomes :
          enrollInCourse(c, o) /\ now' <= MaxManyTime
    \/ \E c \in ManyCourseIds, o \in Outcomes : \E l \in nextLessons(c) :
          updateCourseProgress(c, l, o) /\ now' <= MaxManyTime

SpecMany == Init /\ [][NextMany]_vars

\* The remote tables, used from up to MaxPages browsers of the same session.
NextRemote ==
    \/ \E u \in Users : SignIn(u)
    \/ SignOut
    \/ \E k \in CallIds, c \in RemoteCourseIds : remoteEnrollStart(k, c)
    \/ \E k \in CallIds, o \in Outcomes :
          remoteEnrollCheck(k, o) /\ now' <= MaxRemoteTime
    \/ \E k \in CallIds, o \in Outcomes : remoteEnrollInsert(k, o)
    \/ \E p \in PageIds, c \in RemoteCourseIds, l \in RemoteLessonIds :
          fetchLesson(p, c, l)
    \/ \E p \in PageIds : leavePage(p)
    \/ \E p \in PageIds, o \in Outcomes :
          markAsComplete(p, o) /\ now' <= MaxRemoteTime
             /\ Len(markers') <= MaxMarkers
    \/ \E p \in PageIds, o \in Outcomes : unmarkLesson(p, o)

SpecRemote == Init /\ [][NextRemote]_vars

\* The two enroll handlers side by side: CourseDetailPage has a version on
\* useEnrollmentSimple and a version on useEnrollments.
NextEnroll ==
    \/ \E u \in Users : SignIn(u)
    \/ SignOut
    \/ \E c \in CourseIds, o \in Outcomes :
          enrollInCourse(c, o) /\ now' <= MaxRemoteTime
    \/ \E k \in CallIds, c \in RemoteCourseIds : remoteEnrollStart(k, c)
    \/ \E k \in CallIds, o \in Outcomes :
          remoteEnrollCheck(k, o) /\ now' <= MaxRemoteTime
    \/ \E k \in CallIds, o \in Outcomes : remoteEnrollInsert(k, o)

SpecEnroll == Init /\ [][NextEnroll]_vars

\* LoginPage's effect: with loading false and a user or a session, it reads
\* the stored path (or /dashboard), removes it and navigates there
loginRedirect ==
    /\ nav.path = "/login"
    /\ ~auth.loading
    /\ auth.user # NoCurrentUser \/ auth.session # NoSession
    /\ nav' = [path |-> redirectPath, redirectAfterLogin |-> ""]
    /\ UNCHANGED <<backend, auth, tasks, trackerVars>>

\* The session provider on its own: any of the three providers is mounted,
\* on a browser that may hold a backend session from an earlier visit.
InitSession ==
    /\ user = NoUser
    /\ now = 0
    /\ store = <<>>
    /\ listMounted = FALSE
    /\ enrollments = <<>>
    /\ last = Outcome("init", "", TRUE, "")
    /\ db = <<>>
    /\ markers = <<>>
    /\ calls = [k \in CallIds |-> NoCall]
    /\ pages = [p \in PageIds |-> NoPage]
    /\ probe = NoProbe
    /\ backend \in [session : Accounts \cup {NoSession}]
    /\ \E impl \in Providers : auth = mounted(impl)
    /\ tasks = <<>>
    /\ nav = [path |-> "/", redirectAfterLogin |-> ""]
    /\ InitCatalog

NextSession ==
    \/ \E o \in Outcomes : bootGetSession(o)
    \/ \E o \in RequestOutcomes : bootProfile(o)
    \/ tokenRefreshed /\ Len(tasks') <= MaxEvents
    \/ \E i \in DOMAIN tasks, o \in RequestOutcomes : listenerProfile(i, o)
    \/ \E e \in Emails, ok \in BOOLEAN : sessionSignIn(e, ok)
    \/ \E e \in Emails, ok \in BOOLEAN : authSignInStart(e, ok)
    \/ authSignInPassword /\ Len(tasks') <= MaxEvents
    \/ \E o \in RequestOutcomes : authSignInProfile(o)
    \/ \E o \in Outcomes : sessionSignOut(o)
    \/ \E o \in RequestOutcomes : authSignOut(o)
    \/ \E path \in Paths : visit(path)
    \/ guardRedirect
    \/ loginRedirect

SpecSession == InitSession /\ [][NextSession]_vars

\* The operations of SessionProvider that write `loading`, with every
\* awaited request eventually answered.
NextLoading ==
    \/ \E o \in Outcomes : bootGetSession(o)
    \/ \E o \in RequestOutcomes : bootProfile(o)
    \/ \E e \in Emails, ok \in BOOLEAN : sessionSignIn(e, ok)
    \/ \E o \in Outcomes : sessionSignOut(o)
    \/ signUpStart
    \/ \E o \in RequestOutcomes, hasUser \in BOOLEAN : signUpAuth(o, hasUser)
    \/ \E o \in RequestOutcomes : signUpInsert(o)
    \/ updateProfileStart
    \/ \E o \in RequestOutcomes : updateProfileAuth(o)
    \/ \E o \in RequestOutcomes : updateProfileTable(o)

InitLoading == InitSession /\ auth.impl = "session"

SpecLoading ==
    /\ InitLoading
    /\ [][NextLoading]_vars
    /\ WF_vars(\E o \in Outcomes : bootGetSession(o))
    /\ WF_vars(\E o \in RequestOutcomes : bootProfile(o))
    /\ WF_vars(\E o \in RequestOutcomes, hasUser \in BOOLEAN :
                  signUpAuth(o, hasUser))
    /\ WF_vars(\E o \in RequestOutcomes : signUpInsert(o))
    /\ WF_vars(\E o \in RequestOutcomes : updateProfileAuth(o))
    /\ WF_vars(\E o \in RequestOutcomes : updateProfileTable(o))

-----------------------------------------------------------------------------
(* The enrollment lookups as functions of what they read *)

\* how an evaluation ends: it threw, or it returned a value
Threw == [threw |-> TRUE, value |-> FALSE]
Returned(v) == [threw |-> FALSE, value |-> v]

\* try { ... } catch (err) { return false; }
catchFalse_Rethrow(r) == r

catchFalse(r) == IF r.threw THEN Returned(FALSE) ELSE r

\* an entry of the parsed array: a record, or null
NullItem == [isNull |-> TRUE, user_id |-> "", course_id |-> ""]
Items ==
    {NullItem} \cup
    [isNull : {FALSE}, user_id : Users, course_id : {"course-3", "course-x"}]

RECURSIVE SeqsUpTo(_, _)
SeqsUpTo(S, n) ==
    IF n = 0 THEN {<<>>}
    ELSE LET shorter == SeqsUpTo(S, n - 1)
         IN shorter \cup {Append(q, x) : q \in shorter, x \in S}

\* what localStorage holds under the key: getItem throws ("unreachable"),
\* returns null ("absent") or "" ("empty"), returns text that JSON.parse
\* rejects ("malformed"), text of a value that is not an array ("notArray"),
\* or the text of an array
Contents ==
    [kind : {"unreachable", "absent", "empty", "malformed", "notArray"},
     items : {<<>>}]
    \cup [kind : {"array"}, items : SeqsUpTo(Items, MaxItems)]

\* enrollments.find(e => e.user_id === user.id && e.course_id === courseId):
\* the callback throws on a null entry it reaches
RECURSIVE findEnrollment(_, _, _)
findEnrollment(items, u, courseId) ==
    IF items = <<>> THEN Returned(FALSE)
    ELSE IF Head(items).isNull THEN Threw
    ELSE IF Head(items).user_id = u /\ Head(items).course_id = courseId
    THEN Returned(TRUE)
    ELSE findEnrollment(Tail(items), u, courseId)

\* the body of the try block of useEnrollmentSimple.isEnrolled
localLookup(u, content, courseId) ==
    CASE content.kind = "unreachable" -> Threw
      [] content.kind \in {"absent", "empty"} -> Returned(FALSE)
      [] content.kind \in {"malformed", "notArray"} -> Threw
      [] content.kind = "array" -> findEnrollment(content.items, u, courseId)

\* useEnrollmentSimple.isEnrolled as a function of the user and the storage
localIsEnrolled(u, content, courseId) ==
    IF u = NoUser THEN Returned(FALSE)
    ELSE catchFalse(localLookup(u, content, courseId))

\* useEnrollments.isEnrolled, first version: .single(), `if (error) return
\* false`; `rows` rows match the query
remoteIsEnrolledV1(u, rows, outcome) ==
    IF u = NoUser THEN Returned(FALSE)
    ELSE catchFalse(IF outcome = "throw" THEN Threw
                    ELSE IF outcome = "error" \/ rows # 1 THEN Returned(FALSE)
                    ELSE Returned(TRUE))

\* second version: .maybeSingle(), `if (result.error) throw result.error`
remoteIsEnrolledV2(u, rows, outcome) ==
    IF u = NoUser THEN Returned(FALSE)
    ELSE catchFalse(IF outcome = "throw" THEN Threw
                    ELSE IF outcome = "error" \/ rows > 1 THEN Threw
                    ELSE Returned(rows = 1))

\* LessonPage.checkEnrollment (local version): the page stays open when
\* useEnrollmentSimple.isEnrolled answers true
lessonGateAdmits(u, courseId) == isEnrolled(u, courseId)

\* ReviewPage.checkEnrollment: the page stays open when .single() on the
\* remote table `enrollments` returns the user's row without error
reviewGateAdmits(u, courseId, outcome) ==
    u # NoUser /\ singleRow(enrollmentRows(u, courseId), outcome)

ProbeLocal(u, content, courseId) ==
    /\ probe' = [op |-> "local", user |-> u, content |-> content,
                 course |-> courseId,
                 result |-> localIsEnrolled(u, content, courseId)]
    /\ UNCHANGED <<user, now, store, listMounted, enrollments, last, remoteVars>>
    /\ UNCHANGED <<sessionVars, catalogVars>>

ProbeRemote(version, u, rows, outcome) ==
    /\ probe' = [op |-> version, user |-> u, rows |-> rows, outcome |-> outcome,
                 result |-> IF version = "remoteV1"
                            THEN remoteIsEnrolledV1(u, rows, outcome)
                            ELSE remoteIsEnrolledV2(u, rows, outcome)]
    /\ UNCHANGED <<user, now, store, listMounted, enrollments, last, remoteVars>>
    /\ UNCHANGED <<sessionVars, catalogVars>>

NextLookup ==
    \/ \E u \in Users \cup {NoUser}, content \in Contents,
          c \in {"course-3", "course-x"} : ProbeLocal(u, content, c)
    \/ \E version \in {"remoteV1", "remoteV2"}, u \in Users \cup {NoUser},
          rows \in 0..MaxRows, o \in RequestOutcomes :
          ProbeRemote(version, u, rows, o)

SpecLookup == Init /\ [][NextLookup]_vars

SpecQuery == Init /\ [][NextQuery]_vars

SpecCourse == Init /\ [][NextCourse]_vars

SpecCatalogLocal == Init /\ [][NextCatalogLocal]_vars

SpecCatalogRemote == Init /\ [][NextCatalogRemote]_vars

-----------------------------------------------------------------------------
(* Properties *)

Records == Range(store)

Rank(status) ==
    CASE status = "enrolled" -> 0
      [] status = "in_progress" -> 1
      [] status = "completed" -> 2

\* the course's own lessons: the number of entries of `lessons` of the demo
\* course in useCourses.getDemoCourses (identifiers lesson-<c>-1, ...)
courseLessons(courseId) ==
    CASE courseId = "course-1" -> 3
      [] courseId = "course-2" -> 2
      [] courseId = "course-3" -> 2
      [] courseId = "course-4" -> 2
      [] OTHER -> 0

AllCourseIds == CourseIds \cup RemoteCourseIds \cup {"course-1", "course-2"}

\* C1: neither store ever holds two Enrollment records of one user for one
\* course.
C1_OnePerPair ==
    \A u \in Users, c \in AllCourseIds :
        /\ Cardinality({i \in DOMAIN store :
                store[i].user_id = u /\ store[i].course_id = c}) <= 1
        /\ Cardinality(enrollmentRows(u, c)) <= 1

\* C2: an enroll that starts when the user already has an Enrollment for the
\* course reports "Already enrolled", succeeds, and leaves the store as it
\* was, with exactly one record for the pair.
C2_SecondEnrollIdempotent ==
    [][ /\ \A c \in CourseIds :
              (enrollInCourse(c, "ok") /\ isEnrolled(user, c))
              => /\ store' = store
                 /\ last'.ok /\ last'.toast = "Already enrolled"
                 /\ Cardinality({i \in DOMAIN store' :
                        store'[i].user_id = user /\ store'[i].course_id = c}) = 1
        /\ \A k \in CallIds :
              (calls[k].pc # "idle" /\ calls'[k].pc = "idle" /\ calls[k].prior)
              => /\ db' = db
                 /\ last'.ok /\ last'.toast = "Already enrolled"
                 /\ Cardinality({i \in DOMAIN db' :
                        /\ db'[i].user_id = calls[k].user_id
                        /\ db'[i].course_id = calls[k].course_id}) = 1
      ]_vars

\* C3: every Enrollment record has progress = round(100 * completed / total)
\* when its lesson_count is positive, and progress 0 when it is 0.
C3_ProgressFormula ==
    \A e \in Records :
        e.progress = IF e.lesson_count > 0
                     THEN RoundPercent(e.completed_lessons_count, e.lesson_count)
                     ELSE 0

\* C4: every Enrollment's progress lies in 0..100 and its
\* completed_lessons_count does not exceed its lesson_count.
C4_ProgressInRange ==
    \A e \in Records :
        /\ e.progress \in 0..100
        /\ e.completed_lessons_count <= e.lesson_count

\* C5: an Enrollment whose lessons are all completed (lesson_count > 0) has
\* status completed and a completed_at.
C5_AllDoneIsCompleted ==
    \A e \in Records :
        (e.lesson_count > 0 /\ e.completed_lessons_count = e.lesson_count)
            => (e.status = "completed" /\ e.completed_at # Null)

\* C6: completed_at is set exactly when status is completed.
C6_CompletedAtIffCompleted ==
    \A e \in Records : (e.completed_at # Null) <=> (e.status = "completed")

\* C7: marking complete a lesson the user has already marked complete
\* changes nothing: the markers, the count, progress, status and completed_at
\* stay as they are (local store and remote tables).
C7_MarkTwiceNoOp ==
    [][ /\ \A c \in CourseIds, l \in LessonIds :
              ( /\ updateCourseProgress(c, l, "ok")
                /\ findIndex(user, c) # 0
                /\ textIncludes(store[findIndex(user, c)].completed_lessons, l) )
              => store' = store
        /\ \A p \in PageIds :
              ( /\ markAsComplete(p, "ok")
                /\ markerRows(pages[p].user_id,
                              <<pages[p].course_id, pages[p].lesson>>) # {} )
              => (markers' = markers /\ db' = db)
      ]_vars

\* C8: progress is measured against the course's own lessons: with k of the
\* course's N lessons marked (and no other), the Enrollment has progress
\* round(100 k / N); it is enrolled for k = 0, in_progress for 0 < k < N and
\* completed, with completed_at set, for k = N.
C8_ProgressAgainstCourseLessons ==
    \A e \in Records :
        LET N == courseLessons(e.course_id)
            k == Len(e.completed_lessons)
        IN (e.course_id # "course-x" /\ Range(e.completed_lessons) \subseteq 1..N) =>
              /\ e.progress = RoundPercent(k, N)
              /\ k = 0 => e.status = "enrolled"
              /\ (0 < k /\ k < N) => e.status = "in_progress"
              /\ k = N => (e.status = "completed" /\ e.completed_at # Null)

\* C9: no step other than an unenroll moves the status of an Enrollment
\* backward in the order enrolled < in_progress < completed.
C9_StatusMonotonic ==
    [][\A e \in Records : \A f \in Range(store') :
          f.id = e.id => Rank(f.status) >= Rank(e.status)]_vars

\* C10: right after removeEnrollment of the user's Enrollment for a course,
\* the store holds no record of that user for that course and isEnrolled
\* answers false.
C10_UnenrollRemoves ==
    last.op = "remove" =>
        /\ ~isEnrolled(user, last.course)
        /\ \A e \in Records :
              ~(e.user_id = user /\ e.course_id = last.course)

\* C11: a step that puts into the local store a record for a (user, course)
\* pair that had none is a successful enrollInCourse of that user for that
\* course; no other operation creates an Enrollment.
C11_CreatedOnlyByEnroll ==
    [][\A e \in Range(store') :
          (\A f \in Records :
               ~(f.user_id = e.user_id /\ f.course_id = e.course_id))
          => /\ last'.op = "enroll"
             /\ last'.toast = "Enrollment successful"
             /\ last'.course = e.course_id
             /\ e.user_id = user]_vars

\* C12: with no user signed in (and no enroll of an earlier session still in
\* flight) an enroll changes neither store and ends with success = false and
\* the notification "Authentication required".
C12_EnrollNeedsUser ==
    [][(user = NoUser /\ user' = NoUser /\ \A k \in CallIds : calls[k].pc = "idle")
        => /\ store' = store
           /\ db' = db
           /\ calls' = calls
           /\ last'.op = "enroll" =>
                 (~last'.ok /\ last'.toast = "Authentication required")]_vars

C12_Witness ==
    /\ user = NoUser
    /\ last.op = "enroll"
    /\ last.toast = "Authentication required"
    /\ store # <<>>
    /\ db # <<>>

\* C13: isEnrolled (local and both remote versions) never throws and returns
\* a boolean, whatever the user and the storage are; it returns false when
\* the storage is empty or unreadable or malformed and when the remote
\* lookup fails or matches no row.
C13_IsEnrolledTotal ==
    probe.op # "none" =>
        /\ ~probe.result.threw
        /\ probe.result.value \in BOOLEAN
        /\ probe.user = NoUser => probe.result.value = FALSE
        /\ probe.op = "local" =>
              ((probe.content.kind # "array" \/ probe.content.items = <<>>)
                  => probe.result.value = FALSE)
        /\ probe.op \in {"remoteV1", "remoteV2"} =>
              ((probe.outcome # "ok" \/ probe.rows = 0)
                  => probe.result.value = FALSE)

C13_Witness ==
    /\ probe.op = "local"
    /\ probe.user # NoUser
    /\ probe.content.kind = "malformed"
    /\ probe.result = Returned(FALSE)

\* C14: when the local store holds enrollments of the signed-in user, every
\* enrollment check gives the same answer for each course: isEnrolled, the
\* lesson-page gate and the review-page gate (its request succeeding).
C14_SameStore ==
    (user # NoUser /\ userEnrollments(user) # <<>>) =>
        \A c \in CourseIds \cup {"course-1", "course-2"} :
            /\ lessonGateAdmits(user, c) <=> isEnrolled(user, c)
            /\ reviewGateAdmits(user, c, "ok") <=> isEnrolled(user, c)

\* C15: every enroll, mark and unenroll ends with a notification; a success
\* notification only when the store then holds the change, a failure
\* notification only when the store is as it was.
C15_NotificationMatchesOutcome ==
    [][(last' # last /\ last'.op \in {"enroll", "mark", "remove"}) =>
          LET held == \E e \in Range(store') :
                         e.user_id = user /\ e.course_id = last'.course
          IN /\ last'.toast # ""
             /\ last'.toast \in {"Enrollment successful", "Already enrolled"}
                   => held
             /\ last'.toast = "Progress updated" => (held /\ store' # store)
             /\ last'.toast = "Enrollment Removed" => ~held
             /\ last'.toast \in {"Authentication required", "Enrollment failed",
                                  "Failed to mark lesson as complete"}
                   => store' = store]_vars

\* C16: a signIn with credentials the backend rejects leaves the current
\* user as it was and ends with the notification "Sign in failed".
C16_SignInDelegates ==
    [][( \/ \E e \in Emails, ok \in BOOLEAN :
               sessionSignIn(e, ok) /\ ~backendAccepts(e, ok)
         \/ authSignInPassword /\ ~auth.signin.accepted )
       => (auth'.user = auth.user /\ auth'.toast = "Sign in failed")]_vars

\* C17: whenever loading is false, isAdmin is true exactly when there is a
\* current user whose email is the administrator address.
C17_IsAdminIffAdminEmail ==
    ~auth.loading =>
        (auth.isAdmin <=>
            (auth.user # NoCurrentUser /\ auth.user.email = AdminEmail))

C19_ProfileFallback ==
    [][ /\ \A o \in {"error", "throw"} :
              bootProfile(o) => auth'.user = metadataUser(auth.boot.session)
        /\ \A i \in DOMAIN tasks, o \in {"error", "throw"} :
              listenerProfile(i, o) => auth'.user = metadataUser(tasks[i].session)
      ]_vars

\* C20: on a protected route the guard shows the page only when loading is
\* false, there is a current user and, on the admin-only route, isAdmin is
\* true; it shows the spinner while loading, sends a visitor without user to
\* /login and a non-admin on the admin-only route to another route.
C20_GuardRendersPageOnlyWhenAllowed ==
    nav.path \in ProtectedPaths =>
        /\ rendered = "children" =>
              /\ ~auth.loading
              /\ auth.user # NoCurrentUser
              /\ requireAdmin(nav.path) => auth.isAdmin
        /\ auth.loading => rendered = "spinner"
        /\ (~auth.loading /\ auth.user = NoCurrentUser) => rendered = "/login"
        /\ ( /\ ~auth.loading
             /\ auth.user # NoCurrentUser
             /\ requireAdmin(nav.path)
             /\ ~auth.isAdmin ) => rendered \in Paths \ {nav.path}

C20_Witness ==
    /\ nav.path = "/admin"
    /\ ~auth.loading
    /\ auth.user # NoCurrentUser
    /\ ~auth.isAdmin
    /\ rendered = "/dashboard"

\* C21: a sign-in navigates to the path stored by the redirect to login, or
\* to the dashboard when none is stored, and consumes the stored path: after
\* the sign-in no stored path is left for a later sign-in to reuse.
C21_RedirectPathUsedOnce ==
    [][(\E e \in Emails, ok \in BOOLEAN : sessionSignIn(e, ok))
       => /\ nav'.path = redirectPath
          /\ nav'.redirectAfterLogin = ""]_vars

\* C26: once the client has signed out and the SIGNED_OUT event has been
\* handled (no backend session, no current user), an identity lookup started
\* earlier -- the profile lookup of the bootstrap fetch or of a SIGNED_IN /
\* TOKEN_REFRESHED handler -- that completes now sets neither the current
\* user nor isAdmin.
C26_LateLookupKeepsSignedOut ==
    [][( /\ backend.session = NoSession
         /\ auth.user = NoCurrentUser
         /\ \/ \E o \in RequestOutcomes : bootProfile(o)
            \/ \E i \in DOMAIN tasks, o \in RequestOutcomes :
                   listenerProfile(i, o) )
       => /\ auth'.user = NoCurrentUser
          /\ auth'.isAdmin = auth.isAdmin]_vars

\* the stored records that do not belong to user u
recordsOfOthers(st, u) ==
    SelectSeqBy(st, [e \in Range(st) |-> e.user_id # u])

\* C28: loading the enrollment list, removeEnrollment and
\* updateEnrollmentStatus of one user leave the stored records of every
\* other user unchanged.
C28_OtherUsersUntouched ==
    [][( \/ \E o \in Outcomes : ListMount(o)
         \/ \E i \in DOMAIN enrollments, sp \in StatusInputs, o \in Outcomes :
                updateEnrollmentStatus(enrollments[i].id, sp[1], sp[2], o)
         \/ \E i \in DOMAIN enrollments, o \in Outcomes :
                removeEnrollment(enrollments[i].id, o) )
       => recordsOfOthers(store', user) = recordsOfOthers(store, user)]_vars

\* C29: a removeEnrollment or updateEnrollmentStatus of the list keeps every
\* stored record of the user other than the one it is about, and keeps the
\* completed lessons of the one it updates: what the tracker persisted since
\* the list loaded is not lost.
C29_TrackerWritesSurviveList ==
    [][ /\ \A i \in DOMAIN enrollments, o \in Outcomes :
              removeEnrollment(enrollments[i].id, o) =>
                  \A e \in Range(store) :
                      (e.user_id = user /\ e.id # enrollments[i].id)
                          => e \in Range(store')
        /\ \A i \in DOMAIN enrollments, sp \in StatusInputs, o \in Outcomes :
              updateEnrollmentStatus(enrollments[i].id, sp[1], sp[2], o) =>
                  \A e \in Range(store) :
                      e.user_id = user =>
                          IF e.id # enrollments[i].id
                          THEN e \in Range(store')
                          ELSE \E f \in Range(store') :
                                  /\ f.id = e.id
                                  /\ f.completed_lessons = e.completed_lessons
      ]_vars

\* C30: whenever loading is true it eventually becomes false again: after
\* the bootstrap fetch and after every signIn, signUp and updateProfile, on
\* success and on every failure path.
C30_LoadingEventuallyFalse == auth.loading ~> ~auth.loading

C30_Witness ==
    /\ ~auth.loading
    /\ auth.boot.pc = "done"
    /\ auth.signup = "idle"
    /\ auth.update = "idle"
    /\ auth.toast = "Sign up failed"

\* C22: the catalog query returns only stored courses that satisfy every
\* active predicate (for an active difficulty d, only courses whose
\* difficulty is d, letter case and surrounding blanks aside), returns every
\* stored course that satisfies all of them exactly, and orders the result by
\* creation timestamp, newest first.
C22_QueryReturnsMatchesNewestFirst ==
    query.op # "none" =>
        LET f == query.filters
            R == query.result
            S == query.stored
        IN /\ \A c \in Range(R) :
                 /\ c \in Range(S)
                 /\ localSearch(c, f)
                 /\ localCategory(c, f)
                 /\ localInstructor(c, f)
                 /\ active(f.difficulty) =>
                       /\ c.difficulty # Undefined
                       /\ trim(toLowerCase(c.difficulty))
                              = trim(toLowerCase(f.difficulty))
           /\ \A c \in Range(S) :
                 ( /\ clientSearch(c, f)
                   /\ clientCategory(c, f)
                   /\ clientDifficulty(c, f)
                   /\ clientInstructor(c, f) ) => c \in Range(R)
           /\ Len(R) = Cardinality(Range(R))
           /\ \A i, j \in DOMAIN R :
                 i < j => R[i].created_at >= R[j].created_at

\* C23: a fetch of the single course `id` shows a course whose id is `id` or
\* shows none: the effect of the local-storage version ends, and a response
\* of the remote version is handled, with the course that fetch set having
\* the id it asked for.
C23_CourseHasRequestedId ==
    [][ /\ \A id \in CourseIdInputs :
              useCourseLocal(id) =>
                  (single'.course = single.course \/ single'.course.id = id)
        /\ \A i \in DOMAIN lookups, o \in RequestOutcomes :
              (useCourseRemoteCourse(i, o) \/ useCourseRemoteLessons(i, o)) =>
                  \/ single'.course = single.course
                  \/ single'.course.id = lookups[i].id
      ]_vars

\* C24: at most one fetchCourses execution of the hook is in flight.
C24_OneFetchInFlight ==
    Cardinality({i \in DOMAIN fetches : fetches[i].kind = "fetch"}) <= 1

\* C25: when a background sync starts, every background sync that has run
\* to its end ended more than an hour before.
C25_SyncOncePerHour ==
    [][Len(syncLog') > Len(syncLog)
          => \A k \in DOMAIN syncLog :
                 syncLog[k].done # NoTime => clock - syncLog[k].done > OneHour]_vars

\* C27: with no fetch in flight and no error shown, the displayed list is
\* the result for the current filters.
C27_ShowsLatestFilters ==
    (catalog.impl = "remote" /\ fetches = <<>> /\ ~catalog.error)
        => catalog.courses = shownRows(catalog.filters)

====
